---- MODULE Spec2Model ----
(***************************************************************************)
(* A model of the URL shortener of src/src/server.ts: the urls table, the  *)
(* three request handlers (POST /api/shorten, GET /api/stats/:shortCode,   *)
(* GET /:shortCode) and the sqlite3 statements they queue.  A handler runs *)
(* to its first database call in one step; every queued statement is      *)
(* executed by the database and its callback run in one later step, in any *)
(* order relative to the statements of other requests (sqlite3's default   *)
(* parallel mode gives no order between statements).  A statement may fail *)
(* (err set in its callback).                                              *)
(***************************************************************************)
EXTENDS Integers, Sequences, FiniteSets, Bags, TLC

\* ------------------------------------------------------------------ bounds

\* Number of HTTP requests that arrive in one behaviour.
MaxReqs == 4

\* Number of POST /api/shorten requests that arrive in one behaviour of
\* SpecInput.
MaxInputs == 2

\* Number of requests that arrive in one behaviour of SpecFair.
MaxLive == 3

\* Number of database statements that fail for reasons of the environment
\* (SQLITE_BUSY, I/O error) in one behaviour.
MaxFaults == 1

\* The values generateShortCode can return.  The code draws 8 hex digits of a
\* v4 UUID; two values are enough for both a collision and a fresh code.
Codes == {"a1b2c3d4", "e5f6a7b8"}

\* ------------------------------------------------------------- characters

\* A JavaScript string is a sequence of one-character strings.
Whitespace == {" ", "\t", "\n"}

Upper == <<"A","B","C","D","E","F","G","H","I","J","K","L","M",
           "N","O","P","Q","R","S","T","U","V","W","X","Y","Z">>

Lower == <<"a","b","c","d","e","f","g","h","i","j","k","l","m",
           "n","o","p","q","r","s","t","u","v","w","x","y","z">>

Digits == {"0","1","2","3","4","5","6","7","8","9"}

Range(s) == {s[i] : i \in DOMAIN s}

ToLowerChar(c) ==
    IF \E i \in DOMAIN Upper : Upper[i] = c
    THEN Lower[CHOOSE i \in DOMAIN Upper : Upper[i] = c]
    ELSE c

ToLower(s) == [i \in DOMAIN s |-> ToLowerChar(s[i])]

\* s has the contiguous subsequence sub.
Contains(s, sub) ==
    \E i \in 1..(Len(s) - Len(sub) + 1) : SubSeq(s, i, i + Len(sub) - 1) = sub

\* pattern.test(url) for a literal pattern with the i flag: a substring
\* search that ignores case.
TestI(pattern, s) == Contains(ToLower(s), ToLower(pattern))

\* String.prototype.trim
RECURSIVE TrimStart(_)
TrimStart(s) ==
    IF s # <<>> /\ Head(s) \in Whitespace THEN TrimStart(Tail(s)) ELSE s

RECURSIVE TrimEnd(_)
TrimEnd(s) ==
    IF s # <<>> /\ s[Len(s)] \in Whitespace
    THEN TrimEnd(SubSeq(s, 1, Len(s) - 1))
    ELSE s

Trim(s) == TrimEnd(TrimStart(s))

\* Index of the first element of s that is in set cs, or 0.
IndexOf(s, cs) ==
    IF \E i \in DOMAIN s : s[i] \in cs
    THEN CHOOSE i \in DOMAIN s : s[i] \in cs /\ \A j \in 1..(i - 1) : s[j] \notin cs
    ELSE 0

\* ----------------------------------------------------------- request bodies

Undefined == [t |-> "undefined"]
Num(n) == [t |-> "number", n |-> n]
Str(s) == [t |-> "string", s |-> s]

ExampleCom == <<"h","t","t","p","s",":","/","/","e","x","a","m","p","l","e",".","c","o","m">>

ClickTest == <<"h","t","t","p","s",":","/","/","c","l","i","c","k","-","t","e","s","t",".","c","o","m">>

ExamplePath == <<"h","t","t","p","s",":","/","/","e","x","a","m","p","l","e",".","c","o","m","/","p","a","t","h">>

\* The url fields the requests of Spec carry: two URLs that pass the
\* validation chain and one that it rejects.
Bodies == {Str(ExampleCom), Str(ExamplePath), Str(ClickTest)}

\* -------------------------------------------------------------- validator

Alpha == Range(Upper) \cup Range(Lower)

\* The scheme of a URL string: the characters before the first ":", or <<>>
\* when there is no ":" or they are not a scheme (new URL then throws, as
\* there is no base URL).
SchemeOf(url) ==
    LET i == IndexOf(url, {":"})
        scheme == SubSeq(url, 1, i - 1)
    IN  IF /\ i > 1
           /\ scheme[1] \in Alpha
           /\ Range(scheme) \subseteq (Alpha \cup Digits \cup {"+", "-", "."})
        THEN ToLower(scheme)
        ELSE <<>>

RECURSIVE SkipSlashes(_)
SkipSlashes(s) ==
    IF s # <<>> /\ Head(s) \in {"/", "\\"} THEN SkipSlashes(Tail(s)) ELSE s

\* Host code points the URL parser refuses.
ForbiddenHost == Whitespace \cup {"<", ">", "[", "]", "^", "|", "%", "@"}

\* The authority of an http(s) URL parses: a non-empty host without forbidden
\* code points, and a port, if any, of digits.
HostParses(rest) ==
    LET after == SkipSlashes(rest)
        e == IndexOf(after, {"/", "\\", "?", "#"})
        authority == IF e = 0 THEN after ELSE SubSeq(after, 1, e - 1)
        p == IndexOf(authority, {":"})
        host == IF p = 0 THEN authority ELSE SubSeq(authority, 1, p - 1)
        port == IF p = 0 THEN <<>> ELSE SubSeq(authority, p + 1, Len(authority))
    IN  /\ host # <<>>
        /\ Range(host) \cap ForbiddenHost = {}
        /\ Range(port) \subseteq Digits

Http == <<"h","t","t","p">>

Https == <<"h","t","t","p","s">>

\* The schemes whose URLs must have a host to parse.
SpecialSchemes == {Http, Https, <<"f","t","p">>, <<"w","s">>, <<"w","s","s">>}

\* new URL(url) does not throw: the string has a scheme and, when the scheme
\* is a special one, an authority that parses.
Parses(url) ==
    LET scheme == SchemeOf(url)
    IN  /\ scheme # <<>>
        /\ scheme \in SpecialSchemes =>
               HostParses(SubSeq(url, Len(scheme) + 2, Len(url)))

\* isValidUrl: new URL(url) does not throw and its protocol is http: or https:
isValidUrl(url) ==
    LET scheme == SchemeOf(url)
    IN  /\ scheme \in {Http, Https}
        /\ HostParses(SubSeq(url, Len(scheme) + 2, Len(url)))

MinUrlLength == 10

MaxUrlLength == 2048

\* The length check without its lower bound.
isValidUrlLengthNoMin(url) == Len(url) <= MaxUrlLength

isValidUrlLength(url) == Len(url) >= MinUrlLength /\ Len(url) <= MaxUrlLength

suspiciousPatterns ==
    { <<"l","o","c","a","l","h","o","s","t">>,
      <<"1","2","7",".","0",".","0",".","1">>,
      <<"0",".","0",".","0",".","0">>,
      <<":",":","1">>,
      <<"f","i","l","e",":">>,
      <<"f","t","p",":">>,
      <<"j","a","v","a","s","c","r","i","p","t",":">>,
      <<"d","a","t","a",":">>,
      <<"v","b","s","c","r","i","p","t",":">> }

isSuspiciousUrl(url) == \E pattern \in suspiciousPatterns : TestI(pattern, url)

spamPatterns ==
    { <<"b","i","t",".","l","y">>,
      <<"t","i","n","y","u","r","l">>,
      <<"s","h","o","r","t",".","l","i","n","k">>,
      <<"g","o","o",".","g","l">>,
      <<"t",".","c","o">>,
      <<"f","b",".","m","e">>,
      <<"o","w",".","l","y">>,
      <<"i","s",".","g","d">> }

containsSpamPatterns(url) == \E pattern \in spamPatterns : TestI(pattern, url)

\* A truthiness test that misses undefined.
FalsyButUndefined(body) ==
    \/ body.t = "number" /\ body.n = 0
    \/ body.t = "string" /\ body.s = <<>>

\* !url: undefined, 0 and the empty string are falsy.
Falsy(body) ==
    \/ body.t = "undefined"
    \/ body.t = "number" /\ body.n = 0
    \/ body.t = "string" /\ body.s = <<>>

\* The validation chain reporting every failed check of the url string by
\* one message.
ValidationErrorOneMessage(body) ==
    IF Falsy(body) THEN "URL is required"
    ELSE IF body.t # "string" THEN "URL must be a string"
    ELSE LET cleanUrl == Trim(body.s)
         IN  IF cleanUrl = <<>> THEN "URL cannot be empty"
             ELSE IF \/ ~isValidUrl(cleanUrl)
                     \/ ~isValidUrlLength(cleanUrl)
                     \/ isSuspiciousUrl(cleanUrl)
                     \/ containsSpamPatterns(cleanUrl)
             THEN "Invalid URL format. Only HTTP and HTTPS URLs are allowed."
             ELSE ""

\* The validation chain with the last two checks in the other order.
ValidationErrorSpamFirst(body) ==
    IF Falsy(body) THEN "URL is required"
    ELSE IF body.t # "string" THEN "URL must be a string"
    ELSE LET cleanUrl == Trim(body.s)
         IN  IF cleanUrl = <<>> THEN "URL cannot be empty"
             ELSE IF ~isValidUrl(cleanUrl)
             THEN "Invalid URL format. Only HTTP and HTTPS URLs are allowed."
             ELSE IF ~isValidUrlLength(cleanUrl)
             THEN "URL length must be between 10 and 2048 characters."
             ELSE IF containsSpamPatterns(cleanUrl)
             THEN "URL appears to be already shortened. Please provide the original URL."
             ELSE IF isSuspiciousUrl(cleanUrl)
             THEN "Suspicious URL detected. Local and file URLs are not allowed."
             ELSE ""

\* The error message of the first check of POST /api/shorten that the url
\* field fails, or "" when it passes them all.
ValidationError(body) ==
    IF Falsy(body) THEN "URL is required"
    ELSE IF body.t # "string" THEN "URL must be a string"
    ELSE LET cleanUrl == Trim(body.s)
         IN  IF cleanUrl = <<>> THEN "URL cannot be empty"
             ELSE IF ~isValidUrl(cleanUrl)
             THEN "Invalid URL format. Only HTTP and HTTPS URLs are allowed."
             ELSE IF ~isValidUrlLength(cleanUrl)
             THEN "URL length must be between 10 and 2048 characters."
             ELSE IF isSuspiciousUrl(cleanUrl)
             THEN "Suspicious URL detected. Local and file URLs are not allowed."
             ELSE IF containsSpamPatterns(cleanUrl)
             THEN "URL appears to be already shortened. Please provide the original URL."
             ELSE ""

\* ------------------------------------------------------- inputs of create

\* url fields that the checks of POST /api/shorten tell apart.
NotAUrl == <<"n","o","t","-","a","-","u","r","l">>

FtpExample == <<"f","t","p",":","/","/","e","x","a","m","p","l","e",".","c","o","m">>

JavascriptAlert == <<"j","a","v","a","s","c","r","i","p","t",":","a","l","e","r","t","(","1",")">>

ShortUrl9 == <<"h","t","t","p",":","/","/","a","b">>

ShortUrl10 == <<"h","t","t","p",":","/","/","a",".","b">>

\* A URL of MaxUrlLength + 1 characters: https://example.com/aaa...
LongUrl ==
    ExampleCom \o <<"/">> \o [i \in 1..(MaxUrlLength - Len(ExampleCom)) |-> "a"]

Localhost == <<"h","t","t","p",":","/","/","l","o","c","a","l","h","o","s","t",":","3","0","0","0">>

BitLy == <<"h","t","t","p","s",":","/","/","b","i","t",".","l","y","/","a","b","c","1","2","3">>

LocalhostBitLy == <<"h","t","t","p",":","/","/","l","o","c","a","l","h","o","s","t","/","b","i","t",".","l","y">>

StatsTest == <<"h","t","t","p","s",":","/","/","s","t","a","t","s","-","t","e","s","t",".","c","o","m">>

PaddedExampleCom == <<" "," ","h","t","t","p","s",":","/","/","e","x","a","m","p","l","e",".","c","o","m"," "," ">>

Blank == <<" ", "\t", " ">>

\* The url fields the requests of SpecInput carry: the field missing, not a
\* string, empty, blank, and strings that fail each check of the chain, or
\* several, or none.
InputBodies ==
    { Undefined, Num(0), Num(42), Str(<<>>), Str(Blank),
      Str(NotAUrl), Str(FtpExample), Str(JavascriptAlert),
      Str(ShortUrl9), Str(ShortUrl10), Str(LongUrl),
      Str(Localhost), Str(LocalhostBitLy), Str(BitLy), Str(ClickTest),
      Str(StatsTest),
      Str(ExampleCom), Str(PaddedExampleCom) }

AllBodies == Bodies \cup InputBodies

\* ------------------------------------------------------------ the urls table

\* A row of urls; id 0 stands for "no row" (db.get calls back with undefined).
NoRow == [id |-> 0, short_code |-> "", original_url |-> <<>>,
          created_at |-> 0, click_count |-> 0]

\* The lookup compares the wrong column (short_code), which no URL equals:
\* it finds no row.
FindByOriginalUrlWrongColumn(table, url) == NoRow

\* SELECT * FROM urls WHERE original_url = ?  (db.get: the first match, none
\* NoRow; without an index on original_url the scan is in id order)
FindByOriginalUrl(table, url) ==
    IF \E i \in DOMAIN table : table[i].original_url = url
    THEN table[CHOOSE i \in DOMAIN table :
                  /\ table[i].original_url = url
                  /\ \A j \in 1..(i - 1) : table[j].original_url # url]
    ELSE NoRow

\* SELECT ... FROM urls WHERE short_code = ?
FindByShortCode(table, code) ==
    IF \E i \in DOMAIN table : table[i].short_code = code
    THEN table[CHOOSE i \in DOMAIN table : table[i].short_code = code]
    ELSE NoRow

\* short_code declared without UNIQUE: no INSERT violates it.
UniqueViolationNone(table, code) == FALSE

\* short_code TEXT UNIQUE NOT NULL: the constraint an INSERT of code violates.
UniqueViolation(table, code) ==
    \E i \in DOMAIN table : table[i].short_code = code

\* INSERT INTO urls (short_code, original_url) VALUES (?, ?): id is the next
\* AUTOINCREMENT value, created_at the current time, click_count 0.
InsertUrl(table, code, url, now) ==
    Append(table, [id |-> Len(table) + 1, short_code |-> code,
                   original_url |-> url, created_at |-> now, click_count |-> 0])

\* The UPDATE setting created_at as well.
IncrementClicksTouchCreatedAt(table, code) ==
    [i \in DOMAIN table |->
        IF table[i].short_code = code
        THEN [table[i] EXCEPT !.click_count = @ + 1, !.created_at = Len(table) + 1]
        ELSE table[i]]

\* The UPDATE adding 2.
IncrementClicksByTwo(table, code) ==
    [i \in DOMAIN table |->
        IF table[i].short_code = code
        THEN [table[i] EXCEPT !.click_count = @ + 2]
        ELSE table[i]]

\* The UPDATE without its WHERE clause.
IncrementClicksAllRows(table, code) ==
    [i \in DOMAIN table |-> [table[i] EXCEPT !.click_count = @ + 1]]

\* UPDATE urls SET click_count = click_count + 1 WHERE short_code = ?
IncrementClicks(table, code) ==
    [i \in DOMAIN table |->
        IF table[i].short_code = code
        THEN [table[i] EXCEPT !.click_count = @ + 1]
        ELSE table[i]]

\* ---------------------------------------------------------------- responses

\* getBaseUrl(req): protocol and host of the request, or SHORT_DOMAIN.
BaseUrl == "http://host"

ShortUrl(code) == <<BaseUrl, "/", code>>

\* res.status(status).json({ error: message })
JsonError(status, message) == [status |-> status, error |-> message]

\* res.status(status).send(text)
TextError(status, text) == [status |-> status, text |-> text]

\* The existing row answered like a new one, with clickCount 0.
ExistingUrlResponseFresh(row) ==
    [status |-> 200, shortUrl |-> ShortUrl(row.short_code),
     originalUrl |-> row.original_url, shortCode |-> row.short_code,
     clickCount |-> 0]

\* res.json of the row found for a URL that is already shortened
ExistingUrlResponse(row) ==
    [status |-> 200, shortUrl |-> ShortUrl(row.short_code),
     originalUrl |-> row.original_url, shortCode |-> row.short_code,
     clickCount |-> row.click_count]

\* res.json of a mapping just inserted
CreatedResponse(shortCode, cleanUrl) ==
    [status |-> 200, shortUrl |-> ShortUrl(shortCode),
     originalUrl |-> cleanUrl, shortCode |-> shortCode, clickCount |-> 0]

\* res.json of GET /api/stats/:shortCode
StatsResponse(row) ==
    [status |-> 200, originalUrl |-> row.original_url,
     shortCode |-> row.short_code, clickCount |-> row.click_count,
     createdAt |-> row.created_at]

\* The redirect sent to the short URL instead of the original one.
RedirectResponseToShortUrl(row) ==
    [status |-> 302, location |-> ShortUrl(row.short_code)]

\* res.redirect(row.original_url)
RedirectResponse(row) == [status |-> 302, location |-> row.original_url]

\* -------------------------------------------------------------------- state

VARIABLES
    urls,        \* the urls table: its rows in id order
    reqs,        \* the requests being served: a bag, they have no order
    arrived,     \* the number of requests that have arrived
    faults,      \* the number of statements that failed for an outside reason
    sent,        \* the request that the last step wrote a response of, if any
    issued,      \* the <<shortCode, originalUrl>> of the 200s of POST /api/shorten
    redirected   \* per short code, the number of 302s sent

vars == <<urls, reqs, arrived, faults, sent, issued, redirected>>

\* A request in the server: the route (kind), the handler's closure
\* (url, shortCode, cleanUrl, row), the statement it waits for (pc) and the
\* responses written (res).  What the client knew when it sent the request:
\* known, the URLs it was given this short code for, and seen, the number of
\* redirects of this short code it had been answered.
NewRequest(kind, shortCode) ==
    [kind |-> kind, url |-> Undefined, shortCode |-> shortCode,
     cleanUrl |-> <<>>, row |-> NoRow, pc |-> "done", res |-> <<>>,
     known |-> {p[2] : p \in {x \in issued : x[1] = shortCode}},
     seen |-> IF kind = "stats" THEN redirected[shortCode] ELSE 0]

Send(q, response) == [q EXCEPT !.res = Append(@, response)]

\* The last response written of request q.
Last(q) == q.res[Len(q.res)]

\* CURRENT_TIMESTAMP: the clock of the database, which ticks at each INSERT.
Now == Len(urls) + 1

\* ----------------------------------------------------------------- handlers

\* The validation chain, computed once for each url field of the model.
ValidationOf == [body \in AllBodies |-> ValidationError(body)]

\* The handler going on with the url as it came, not the trimmed one.
ShortenHandlerKeepsRaw(body) ==
    LET q == [NewRequest("shorten", "") EXCEPT !.url = body]
        error == ValidationOf[body]
    IN  IF error # ""
        THEN Send(q, JsonError(400, error))
        ELSE [q EXCEPT !.cleanUrl = body.s, !.pc = "lookup"]

\* The handler queuing its lookup whatever the validation says.
ShortenHandlerAlwaysLooksUp(body) ==
    LET q == [NewRequest("shorten", "") EXCEPT !.url = body, !.pc = "lookup"]
        error == ValidationOf[body]
    IN  IF error # ""
        THEN Send(q, JsonError(400, error))
        ELSE [q EXCEPT !.cleanUrl = Trim(body.s)]

\* app.post('/api/shorten') up to db.get: the validation chain, then the
\* lookup by original_url is queued.
ShortenHandler(body) ==
    LET q == [NewRequest("shorten", "") EXCEPT !.url = body]
        error == ValidationOf[body]
    IN  IF error # ""
        THEN Send(q, JsonError(400, error))
        ELSE [q EXCEPT !.cleanUrl = Trim(body.s), !.pc = "lookup"]

\* The values generateShortCode can return in the lookup's callback: none
\* ("") on the paths that return before it is called.
generateShortCode(returned) == IF returned THEN {""} ELSE Codes

\* The callback of the lookup by original_url answering a failed lookup
\* with the message of the database error.
ShortenLookupCallbackErrMessage(q, err, row, code) ==
    IF err
    THEN Send([q EXCEPT !.pc = "done"], JsonError(500, "SQLITE_BUSY: database is locked"))
    ELSE IF row # NoRow
    THEN Send([q EXCEPT !.pc = "done"], ExistingUrlResponse(row))
    ELSE [q EXCEPT !.shortCode = code, !.pc = "insert"]

\* The callback of the lookup by original_url answering a new URL before
\* its INSERT has run.
ShortenLookupCallbackAnswersFirst(q, err, row, code) ==
    IF err
    THEN Send([q EXCEPT !.pc = "done"], JsonError(500, "Internal server error"))
    ELSE IF row # NoRow
    THEN Send([q EXCEPT !.pc = "done"], ExistingUrlResponse(row))
    ELSE Send([q EXCEPT !.shortCode = code, !.pc = "insert"],
              CreatedResponse(code, q.cleanUrl))

\* The callback of the lookup by original_url; code is what
\* generateShortCode returns if it is called.
ShortenLookupCallback(q, err, row, code) ==
    IF err
    THEN Send([q EXCEPT !.pc = "done"], JsonError(500, "Internal server error"))
    ELSE IF row # NoRow
    THEN Send([q EXCEPT !.pc = "done"], ExistingUrlResponse(row))
    ELSE [q EXCEPT !.shortCode = code, !.pc = "insert"]

\* The callback of the INSERT with err ignored.
ShortenInsertCallbackIgnoreErr(q, err) ==
    Send([q EXCEPT !.pc = "done"], CreatedResponse(q.shortCode, q.cleanUrl))

\* The callback of the INSERT.
ShortenInsertCallback(q, err) ==
    IF err
    THEN Send([q EXCEPT !.pc = "done"], JsonError(500, "Internal server error"))
    ELSE Send([q EXCEPT !.pc = "done"], CreatedResponse(q.shortCode, q.cleanUrl))

\* The callback of the lookup of GET /api/stats/:shortCode returning without
\* a response when there is no row.
StatsCallbackSilentNotFound(q, err, row) ==
    IF err
    THEN Send([q EXCEPT !.pc = "done"], JsonError(500, "Internal server error"))
    ELSE IF row = NoRow
    THEN [q EXCEPT !.pc = "done"]
    ELSE Send([q EXCEPT !.pc = "done"], StatsResponse(row))

\* The callback of the lookup of GET /api/stats/:shortCode.
StatsCallback(q, err, row) ==
    IF err
    THEN Send([q EXCEPT !.pc = "done"], JsonError(500, "Internal server error"))
    ELSE IF row = NoRow
    THEN Send([q EXCEPT !.pc = "done"], JsonError(404, "Short URL not found"))
    ELSE Send([q EXCEPT !.pc = "done"], StatsResponse(row))

\* The callback of the lookup of GET /:shortCode without the branch for no
\* row: the UPDATE is queued and the redirect sent whatever was found.
RedirectCallbackNoNotFound(q, err, row) ==
    IF err
    THEN Send([q EXCEPT !.pc = "done"], TextError(500, "Internal server error"))
    ELSE Send([q EXCEPT !.row = row, !.pc = "update"], RedirectResponse(row))

\* The callback of the lookup of GET /:shortCode: when a row is found the
\* UPDATE is queued and the redirect is sent at once.
RedirectCallback(q, err, row) ==
    IF err
    THEN Send([q EXCEPT !.pc = "done"], TextError(500, "Internal server error"))
    ELSE IF row = NoRow
    THEN Send([q EXCEPT !.pc = "done"], TextError(404, "Short URL not found"))
    ELSE Send([q EXCEPT !.row = row, !.pc = "update"], RedirectResponse(row))

\* The callback of the UPDATE answering 500 when the UPDATE failed.
UpdateCallbackFailing(q, err) ==
    IF err
    THEN Send([q EXCEPT !.pc = "done"], TextError(500, "Internal server error"))
    ELSE [q EXCEPT !.pc = "done"]

\* The callback of the UPDATE: an error is logged and nothing else.
UpdateCallback(q, err) == [q EXCEPT !.pc = "done"]

\* ------------------------------------------------------------------ actions

Init ==
    /\ urls = <<>>
    /\ reqs = EmptyBag
    /\ arrived = 0
    /\ faults = 0
    /\ sent = <<>>
    /\ issued = {}
    /\ redirected = [code \in Codes |-> 0]

\* A statement fails for an outside reason.
Fault(err) ==
    /\ err => faults < MaxFaults
    /\ faults' = IF err THEN faults + 1 ELSE faults

\* What the client has when the step leaves its request as q, having written
\* n responses before: the response, if one was written, and what it tells.
Observe(q, n) ==
    LET wrote == Len(q.res) > n
    IN  /\ sent' = IF wrote THEN <<q>> ELSE <<>>
        /\ issued' = IF wrote /\ q.kind = "shorten" /\ Last(q).status = 200
                     THEN issued \cup {<<Last(q).shortCode, Last(q).originalUrl>>}
                     ELSE issued
        /\ redirected' = IF wrote /\ q.kind = "redirect" /\ Last(q).status = 302
                         THEN [redirected EXCEPT ![q.shortCode] = @ + 1]
                         ELSE redirected

\* Request q arrives and its handler has run to its first database call.
Arrive(q) ==
    /\ arrived < MaxReqs
    /\ arrived' = arrived + 1
    /\ reqs' = IF q.pc = "done" THEN reqs ELSE reqs (+) SetToBag({q})
    /\ Observe(q, 0)
    /\ UNCHANGED <<urls, faults>>

\* The callback of request r has run and left the request as q; a request
\* whose last callback has run is gone.
Continue(r, q) ==
    /\ reqs' = IF q.pc = "done"
               THEN reqs (-) SetToBag({r})
               ELSE (reqs (-) SetToBag({r})) (+) SetToBag({q})
    /\ Observe(q, Len(r.res))
    /\ UNCHANGED arrived

\* POST /api/shorten arrives with url = body.
PostShorten(body) == Arrive(ShortenHandler(body))

\* The lookup by the url as it came, not the trimmed one.
ShortenLookupRawUrl(r, err) ==
    /\ r.kind = "shorten"
    /\ r.pc = "lookup"
    /\ Fault(err)
    /\ LET row == FindByOriginalUrl(urls, r.url.s)
       IN  \E code \in generateShortCode(err \/ row # NoRow) :
              Continue(r, ShortenLookupCallback(r, err, row, code))
    /\ UNCHANGED urls

\* The database runs the lookup of request r and calls back.
ShortenLookup(r, err) ==
    /\ r.kind = "shorten"
    /\ r.pc = "lookup"
    /\ Fault(err)
    /\ LET row == FindByOriginalUrl(urls, r.cleanUrl)
       IN  \E code \in generateShortCode(err \/ row # NoRow) :
              Continue(r, ShortenLookupCallback(r, err, row, code))
    /\ UNCHANGED urls

\* The INSERT against a table that is UNIQUE on original_url as well.
ShortenInsertUniqueUrl(r, fault) ==
    LET err == \/ fault
               \/ UniqueViolation(urls, r.shortCode)
               \/ FindByOriginalUrl(urls, r.cleanUrl) # NoRow
    IN  /\ r.kind = "shorten"
        /\ r.pc = "insert"
        /\ Fault(fault)
        /\ urls' = IF err THEN urls
                   ELSE InsertUrl(urls, r.shortCode, r.cleanUrl, Now)
        /\ Continue(r, ShortenInsertCallback(r, err))

\* INSERT OR REPLACE: a row with the short code of request r is replaced by
\* the new one.
ShortenInsertOrReplace(r, fault) ==
    /\ r.kind = "shorten"
    /\ r.pc = "insert"
    /\ Fault(fault)
    /\ urls' = IF fault THEN urls
               ELSE IF UniqueViolation(urls, r.shortCode)
               THEN [i \in DOMAIN urls |->
                        IF urls[i].short_code = r.shortCode
                        THEN [urls[i] EXCEPT !.original_url = r.cleanUrl,
                                             !.click_count = 0]
                        ELSE urls[i]]
               ELSE InsertUrl(urls, r.shortCode, r.cleanUrl, Now)
    /\ Continue(r, ShortenInsertCallback(r, fault))

\* The database runs the INSERT of request r and calls back; the statement
\* fails when the code is in use or for an outside reason.
ShortenInsert(r, fault) ==
    LET err == fault \/ UniqueViolation(urls, r.shortCode)
    IN  /\ r.kind = "shorten"
        /\ r.pc = "insert"
        /\ Fault(fault)
        /\ urls' = IF err THEN urls
                   ELSE InsertUrl(urls, r.shortCode, r.cleanUrl, Now)
        /\ Continue(r, ShortenInsertCallback(r, err))

\* GET /api/stats/:shortCode arrives: the lookup is queued.
GetStats(code) == Arrive([NewRequest("stats", code) EXCEPT !.pc = "lookup"])

\* The database runs the lookup of stats request r and calls back.
StatsLookup(r, err) ==
    /\ r.kind = "stats"
    /\ r.pc = "lookup"
    /\ Fault(err)
    /\ Continue(r, StatsCallback(r, err,
                      FindByShortCode(urls, r.shortCode)))
    /\ UNCHANGED urls

\* GET /:shortCode arrives: the lookup is queued.
GetRedirect(code) == Arrive([NewRequest("redirect", code) EXCEPT !.pc = "lookup"])

\* The database runs the lookup of redirect request r and calls back.
RedirectLookup(r, err) ==
    /\ r.kind = "redirect"
    /\ r.pc = "lookup"
    /\ Fault(err)
    /\ Continue(r, RedirectCallback(r, err,
                      FindByShortCode(urls, r.shortCode)))
    /\ UNCHANGED urls

\* The increment as a read in the handler followed by a write: the UPDATE
\* stores the click_count of the row the lookup returned, plus one.
RedirectUpdateReadThenWrite(r, err) ==
    /\ r.kind = "redirect"
    /\ r.pc = "update"
    /\ Fault(err)
    /\ urls' = IF err THEN urls
               ELSE [i \in DOMAIN urls |->
                       IF urls[i].short_code = r.shortCode
                       THEN [urls[i] EXCEPT
                               !.click_count = r.row.click_count + 1]
                       ELSE urls[i]]
    /\ Continue(r, UpdateCallback(r, err))

\* The database runs the UPDATE of redirect request r and calls back.
RedirectUpdate(r, err) ==
    /\ r.kind = "redirect"
    /\ r.pc = "update"
    /\ Fault(err)
    /\ urls' = IF err THEN urls ELSE IncrementClicks(urls, r.shortCode)
    /\ Continue(r, UpdateCallback(r, err))

Next ==
    \/ \E body \in Bodies : PostShorten(body)
    \/ \E code \in Codes : GetStats(code)
    \/ \E code \in Codes : GetRedirect(code)
    \/ \E r \in BagToSet(reqs), err \in BOOLEAN : ShortenLookup(r, err)
    \/ \E r \in BagToSet(reqs), err \in BOOLEAN : ShortenInsert(r, err)
    \/ \E r \in BagToSet(reqs), err \in BOOLEAN : StatsLookup(r, err)
    \/ \E r \in BagToSet(reqs), err \in BOOLEAN : RedirectLookup(r, err)
    \/ \E r \in BagToSet(reqs), err \in BOOLEAN : RedirectUpdate(r, err)

Spec == Init /\ [][Next]_vars

\* A queued statement runs and calls back.
Statement ==
    \E r \in BagToSet(reqs), err \in BOOLEAN :
        \/ ShortenLookup(r, err)
        \/ ShortenInsert(r, err)
        \/ StatsLookup(r, err)
        \/ RedirectLookup(r, err)
        \/ RedirectUpdate(r, err)

\* The three routes with at most MaxLive requests.
NextLive ==
    \/ arrived < MaxLive /\ \E body \in Bodies : PostShorten(body)
    \/ arrived < MaxLive /\ \E code \in Codes : GetStats(code)
    \/ arrived < MaxLive /\ \E code \in Codes : GetRedirect(code)
    \/ Statement

\* The server whose database calls back for every statement it is given.
SpecFair == Init /\ [][NextLive]_vars /\ WF_vars(Statement)

\* POST /api/shorten alone, with every url field of InputBodies.
NextInput ==
    \/ arrived < MaxInputs /\ \E body \in InputBodies : PostShorten(body)
    \/ \E r \in BagToSet(reqs), err \in BOOLEAN : ShortenLookup(r, err)
    \/ \E r \in BagToSet(reqs), err \in BOOLEAN : ShortenInsert(r, err)

SpecInput == Init /\ [][NextInput]_vars

\* The url fields of concurrent creates: valid URLs, pairwise different.
ConcurrentBodies == {Str(ExampleCom), Str(ExamplePath), Str(ShortUrl10)}

\* POST /api/shorten arrives with a url that no request has, while every
\* request that has arrived still waits for its lookup: the creates are
\* concurrent and their URLs pairwise different.
PostConcurrent(body) ==
    /\ BagCardinality(reqs) = arrived
    /\ \A q \in BagToSet(reqs) : q.pc = "lookup" /\ q.url # body
    /\ PostShorten(body)

\* Concurrent creates of different URLs against an empty table.
NextConcurrent ==
    \/ \E body \in ConcurrentBodies : PostConcurrent(body)
    \/ \E r \in BagToSet(reqs), err \in BOOLEAN : ShortenLookup(r, err)
    \/ \E r \in BagToSet(reqs), err \in BOOLEAN : ShortenInsert(r, err)

SpecConcurrent == Init /\ [][NextConcurrent]_vars

\* ============================================================ properties

\* The rows of the table that map url.
Mappings(url) == {i \in DOMAIN urls : urls[i].original_url = url}

\* The row of the table with short code code, NoRow when there is none.
RowOf(code) ==
    IF \E i \in DOMAIN urls : urls[i].short_code = code
    THEN urls[CHOOSE i \in DOMAIN urls : urls[i].short_code = code]
    ELSE NoRow

\* The requests being served that wait at pc.
Waiting(kind, pc) == {q \in BagToSet(reqs) : q.kind = kind /\ q.pc = pc}

\* The number of requests being served that are in set qs.
RECURSIVE Copies(_)
Copies(qs) ==
    IF qs = {} THEN 0
    ELSE LET q == CHOOSE x \in qs : TRUE
         IN  CopiesIn(q, reqs) + Copies(qs \ {q})

\* The number of INSERTs queued for url.
PendingInserts(url) ==
    Copies({q \in Waiting("shorten", "insert") : q.cleanUrl = url})

\* The number of UPDATEs queued for code.
PendingUpdates(code) ==
    Copies({q \in Waiting("redirect", "update") : q.shortCode = code})

\* The response of the last step came from the callback of the lookup by
\* original_url of q (which leaves the table as the lookup found it).
FromShortenLookup(q) ==
    q.kind = "shorten" /\ q.cleanUrl # <<>> /\ q.shortCode = ""

\* The response of the last step came from the callback of the INSERT of q.
FromShortenInsert(q) == q.kind = "shorten" /\ q.shortCode # ""

InternalError(q) ==
    faults > 0 /\ Last(q) \in { JsonError(500, "Internal server error"),
                                TextError(500, "Internal server error") }

\* C1: a POST /api/shorten whose lookup runs when its URL has a mapping is
\* answered 200 with the short code of a mapping of that URL and with
\* clickCount equal to the click_count stored for it at that moment (not 0
\* once clicks were counted); the only other answer is the 500 of a lookup
\* that failed.
DedupReturnsExisting ==
    \A q \in Range(sent) :
        (FromShortenLookup(q) /\ Mappings(q.cleanUrl) # {}) =>
            \/ InternalError(q)
            \/ \E i \in Mappings(q.cleanUrl) :
                  /\ Last(q).status = 200
                  /\ Last(q).shortCode = urls[i].short_code
                  /\ Last(q).originalUrl = q.cleanUrl
                  /\ Last(q).clickCount = urls[i].click_count

\* C1 witness: a duplicate POST /api/shorten was just answered with the
\* existing short code and a clickCount that is not 0.
DedupWitness ==
    \E q \in Range(sent) :
        /\ FromShortenLookup(q)
        /\ Last(q).status = 200
        /\ Last(q).clickCount > 0
        /\ \E i \in Mappings(q.cleanUrl) :
              Last(q).shortCode = urls[i].short_code

\* C2: while a URL has a mapping, no step queues an INSERT for it, and the
\* step that answers a POST /api/shorten from its lookup leaves the table as
\* it was: a duplicate create makes no mapping and changes no row.
DuplicateCreateLeavesStore ==
    [][ /\ \A url \in {urls[i].original_url : i \in DOMAIN urls} :
              PendingInserts(url)' <= PendingInserts(url)
        /\ \A q \in Range(sent') : FromShortenLookup(q) => urls' = urls
      ]_vars

\* C2 witness: a duplicate create was answered 200 from the lookup while the
\* table holds its one mapping.
DuplicateCreateWitness ==
    \E q \in Range(sent) :
        /\ FromShortenLookup(q)
        /\ Last(q).status = 200
        /\ Cardinality(Mappings(q.cleanUrl)) = 1
        /\ Len(urls) = 1

\* C3: no two rows of the table have the same short code, and the short
\* codes returned by 200 responses of POST /api/shorten for different URLs
\* are different.
ShortCodeUnique ==
    /\ \A i, j \in DOMAIN urls :
          i # j => urls[i].short_code # urls[j].short_code
    /\ \A x, y \in issued : x[2] # y[2] => x[1] # y[1]

\* C3 witness: two creates of different URLs were answered 200 and both
\* rows are in the table, a third request having arrived and no statement
\* having failed for an outside reason.
ShortCodeUniqueWitness ==
    /\ \E x, y \in issued : x[2] # y[2]
    /\ Len(urls) = 2
    /\ arrived >= 3
    /\ faults = 0

\* C4 (as claimed): a stats request that arrives after N redirects of its
\* short code were answered, none answered since, reports clickCount = N.
ClickAccounting ==
    \A q \in Range(sent) :
        (/\ q.kind = "stats"
         /\ Last(q).status = 200
         /\ q.seen = redirected[q.shortCode]) =>
            Last(q).clickCount = q.seen

\* C5 (as claimed): every redirect that finds the mapping counts exactly
\* one click, visible to a stats request sent after the redirect was
\* answered: the clickCount reported is at least the number of redirects
\* answered before the stats request was sent and at most the number
\* answered so far (after k sequential redirects, k).
ClickVisibleAfterRedirect ==
    \A q \in Range(sent) :
        (q.kind = "stats" /\ Last(q).status = 200) =>
            /\ Last(q).clickCount >= q.seen
            /\ Last(q).clickCount <= redirected[q.shortCode]

\* C6: the UPDATEs applied to a short code add up: its click_count plus the
\* UPDATEs still queued for it is the number of redirects sent for it, less
\* at most the statements that failed; with no failure, the UPDATEs applied
\* are exactly click_count, whatever their interleaving.
IncrementAtomic ==
    \A i \in DOMAIN urls :
        LET c == urls[i].short_code
            counted == urls[i].click_count + PendingUpdates(c)
        IN  /\ counted <= redirected[c]
            /\ counted >= redirected[c] - faults

\* C6 witness: two UPDATEs of one short code were applied and none failed.
IncrementAtomicWitness ==
    \E i \in DOMAIN urls : urls[i].click_count >= 2 /\ faults = 0

\* C7: a redirect of a short code that a 200 of POST /api/shorten returned
\* for URL u before the redirect was sent is answered 302 with Location u;
\* the only other answer is the 500 of a lookup that failed.
RoundTrip ==
    \A q \in Range(sent) :
        (q.kind = "redirect" /\ q.known # {}) =>
            \/ InternalError(q)
            \/ /\ Last(q).status = 302
               /\ q.known = {Last(q).location}

\* C7 witness: such a redirect was just answered 302 after other operations
\* (a click was already counted for the short code).
RoundTripWitness ==
    \E q \in Range(sent) :
        /\ q.kind = "redirect"
        /\ q.known # {}
        /\ Last(q).status = 302
        /\ q.row.click_count > 0

InsertChecksShortCodeOnly ==
    [][ \A q \in Range(sent') :
          (FromShortenInsert(q) /\ faults' = faults) =>
              IF UniqueViolation(urls, q.shortCode)
              THEN urls' = urls /\ Last(q).status = 500
              ELSE /\ urls' = InsertUrl(urls, q.shortCode, q.cleanUrl, Now)
                   /\ Last(q) = CreatedResponse(q.shortCode, q.cleanUrl)
      ]_vars

\* C9 witness: two mappings with different short codes for one URL.
TwoMappingsOneUrl ==
    \E i, j \in DOMAIN urls :
        /\ i # j
        /\ urls[i].original_url = urls[j].original_url
        /\ urls[i].short_code # urls[j].short_code

\* C10: a redirect whose UPDATE is still queued has already been answered,
\* with the one 302 to the original_url of the row found; and the step in
\* which an UPDATE completes, failed or not, writes no response.
BestEffortIncrement ==
    /\ [](\A q \in Waiting("redirect", "update") :
              q.res = <<RedirectResponse(RowOf(q.shortCode))>>)
    /\ [][ \A code \in Codes :
              PendingUpdates(code)' < PendingUpdates(code) => sent' = <<>>
         ]_vars

\* C10 witness: a redirect was answered 302, its UPDATE failed and nothing
\* is being served: the click is lost and the redirect stood.
BestEffortWitness ==
    \E i \in DOMAIN urls :
        /\ redirected[urls[i].short_code] = 1
        /\ urls[i].click_count = 0
        /\ faults = 1
        /\ reqs = EmptyBag
        /\ sent = <<>>

\* The response of the last step came from the callback of the lookup by
\* short_code of q (a GET /api/stats/:shortCode or a GET /:shortCode).
FromCodeLookup(q) == q.kind \in {"stats", "redirect"}

\* C11: when the lookup of a GET /api/stats/:shortCode or of a GET /:shortCode
\* runs, does not fail, and the table has no row with that short code, the
\* answer is 404, the JSON error 'Short URL not found' for stats and the
\* plain text 'Short URL not found' for the redirect; the table is left as
\* it was, the request is over and no UPDATE is queued.
NotFoundAnswers404 ==
    [][ \A q \in Range(sent') :
          (FromCodeLookup(q) /\ faults' = faults
                             /\ RowOf(q.shortCode) = NoRow) =>
              /\ Last(q) = IF q.kind = "stats"
                           THEN JsonError(404, "Short URL not found")
                           ELSE TextError(404, "Short URL not found")
              /\ Len(q.res) = 1
              /\ q.pc = "done"
              /\ urls' = urls
              /\ \A code \in Codes : PendingUpdates(code)' = PendingUpdates(code)
      ]_vars

\* C11 witness: a GET /:shortCode was answered 404 while the table has a
\* mapping, of another short code.
NotFoundWitness ==
    \E q \in Range(sent) :
        /\ q.kind = "redirect"
        /\ Last(q) = TextError(404, "Short URL not found")
        /\ urls # <<>>
        /\ RowOf(q.shortCode) = NoRow

\* The POST /api/shorten requests the last step answered.
Answered == {q \in Range(sent) : q.kind = "shorten"}

\* C12: a POST /api/shorten whose body has no url field is answered 400 with
\* the JSON error 'URL is required', at once (no statement is queued for it).
MissingUrlIsRequired ==
    /\ \A q \in Answered :
          q.url = Undefined =>
              q.res = <<JsonError(400, "URL is required")>> /\ q.pc = "done"
    /\ \A q \in Waiting("shorten", "lookup") \cup Waiting("shorten", "insert") :
          q.url # Undefined

\* C12 witness: a POST /api/shorten without url field was answered.
MissingUrlWitness == \E q \in Answered : q.url = Undefined /\ q.res # <<>>

\* C13: a POST /api/shorten whose url is present but not a string is answered
\* 400 'URL must be a string'; one whose url is a string that is empty, or
\* empty once trimmed, is answered 400 'URL cannot be empty'; and 'URL is
\* required' answers only a missing url.  (The code answers 'URL is
\* required' to every falsy url, 0 and "" included.)
InputClassification ==
    \A q \in Answered :
        /\ q.url.t \notin {"undefined", "string"} =>
               q.res = <<JsonError(400, "URL must be a string")>>
        /\ (q.url.t = "string" /\ Trim(q.url.s) = <<>>) =>
               q.res = <<JsonError(400, "URL cannot be empty")>>
        /\ Last(q) = JsonError(400, "URL is required") => q.url = Undefined

\* The rules of the validation in the order of the claim, as what each one
\* tells of a trimmed url by itself.
RuleViolated(k, url) ==
    CASE k = 1 -> url = <<>>
      [] k = 2 -> ~Parses(url)
      [] k = 3 -> SchemeOf(url) \notin {Http, Https}
      [] k = 4 -> ~isValidUrlLength(url)
      [] k = 5 -> isSuspiciousUrl(url)
      [] k = 6 -> containsSpamPatterns(url)

\* The message that reports each rule (the second and the third rule are
\* reported by one message).
RuleMessage ==
    << "URL cannot be empty",
       "Invalid URL format. Only HTTP and HTTPS URLs are allowed.",
       "Invalid URL format. Only HTTP and HTTPS URLs are allowed.",
       "URL length must be between 10 and 2048 characters.",
       "Suspicious URL detected. Local and file URLs are not allowed.",
       "URL appears to be already shortened. Please provide the original URL." >>

\* The url fields of SpecInput that are strings the first check lets pass.
Candidates == {body \in InputBodies : body.t = "string" /\ body.s # <<>>}

\* The rules each candidate violates, computed once.
ViolatedRules ==
    [body \in Candidates |->
        {k \in DOMAIN RuleMessage : RuleViolated(k, Trim(body.s))}]

\* The first rule of a non-empty set of rules.
FirstRule(rules) == CHOOSE k \in rules : \A j \in rules : k <= j

\* C14: a POST /api/shorten whose url is a (non-empty) string that violates
\* one or more of the rules non-empty once trimmed, parses, scheme http or
\* https, length in 10..2048, not suspicious, not a shortener, is answered
\* 400 with the message of the first rule, in that order, that it violates;
\* a string that violates none is not answered 400.
FirstViolatedRuleReported ==
    \A q \in Answered :
        q.url \in Candidates =>
            IF ViolatedRules[q.url] = {}
            THEN Last(q).status # 400
            ELSE q.res = <<JsonError(400,
                              RuleMessage[FirstRule(ViolatedRules[q.url])])>>

\* C14 witness: a url that violates two rules with different messages was
\* answered.
SeveralRulesWitness ==
    \E q \in Answered :
        /\ q.url \in Candidates
        /\ Cardinality({RuleMessage[k] : k \in ViolatedRules[q.url]}) >= 2
        /\ FirstRule(ViolatedRules[q.url]) >= 4

\* The url field is a string whose scheme, once trimmed, is not http or
\* https (no scheme included) or whose trimmed length is outside 10..2048.
BadSchemeOrLength(body) ==
    /\ body.t = "string"
    /\ \/ SchemeOf(Trim(body.s)) \notin {Http, Https}
       \/ Len(Trim(body.s)) \notin MinUrlLength..MaxUrlLength

\* C15: a POST /api/shorten whose url has a scheme other than http and https,
\* or a trimmed length outside 10..2048, is answered 400 at once and queues
\* no statement; one whose url is https://example.com is not answered 400:
\* its lookup is queued.
SchemeAndLengthEnforced ==
    /\ \A q \in Answered :
          /\ BadSchemeOrLength(q.url) =>
                 /\ Len(q.res) = 1
                 /\ Last(q).status = 400
                 /\ q.pc = "done"
                 /\ q.cleanUrl = <<>>
          /\ q.url = Str(ExampleCom) =>
                 Last(q).status # 400 /\ q.cleanUrl = ExampleCom
    /\ \A q \in Waiting("shorten", "lookup") \cup Waiting("shorten", "insert") :
          ~BadSchemeOrLength(q.url)

\* C15 witness: https://example.com has a mapping and a url longer than 2048
\* characters was answered 400.
SchemeAndLengthWitness ==
    /\ \E i \in DOMAIN urls : urls[i].original_url = ExampleCom
    /\ \E q \in Answered :
          /\ q.url.t = "string"
          /\ Len(Trim(q.url.s)) > MaxUrlLength
          /\ Last(q).status = 400

\* The validator outcome of a url field that is a string, as the number of
\* the first rule it violates: 1 EmptyInput, 2 MalformedUrl, 3
\* DisallowedScheme, 4 LengthOutOfRange, 5 SuspiciousTarget, 6
\* AlreadyShortened; 0 when it violates none.
Outcome(body) ==
    IF Trim(body.s) = <<>> THEN 1
    ELSE IF ViolatedRules[body] = {} THEN 0
    ELSE FirstRule(ViolatedRules[body])

\* The outcomes the responses tell apart: MalformedUrl and DisallowedScheme
\* are one.
MessageClass(body) == IF Outcome(body) = 3 THEN 2 ELSE Outcome(body)

\* The POST /api/shorten requests the last step answered whose url is a
\* string that the validator rejects.
Rejected == {q \in Answered : q.url.t = "string" /\ Outcome(q.url) # 0}

\* C16 as stated: every validation rejection is a 400, and two rejections
\* with different outcomes among the six have different responses.  (The
\* code answers MalformedUrl and DisallowedScheme with the same response.)
SixOutcomesDistinguishable ==
    /\ [](\A q \in Rejected : Len(q.res) = 1 /\ Last(q).status = 400)
    /\ [][ \A q \in Rejected : \A p \in Rejected' :
              Outcome(q.url) # Outcome(p.url) => Last(q) # Last(p)
         ]_vars

\* C16 amended: every validation rejection is a 400, and two rejections with
\* different outcomes have different responses unless the outcomes are
\* MalformedUrl and DisallowedScheme.
FiveOutcomesDistinguishable ==
    /\ [](\A q \in Rejected : Len(q.res) = 1 /\ Last(q).status = 400)
    /\ [][ \A q \in Rejected : \A p \in Rejected' :
              MessageClass(q.url) # MessageClass(p.url) => Last(q) # Last(p)
         ]_vars

\* C16 witness: two requests arrived, both were rejected by the validator
\* (nothing was queued or stored), the second one for its scheme.
TwoRejectionsWitness ==
    /\ arrived = 2
    /\ urls = <<>>
    /\ reqs = EmptyBag
    /\ faults = 0
    /\ issued = {}
    /\ \E q \in Rejected : Outcome(q.url) = 3

\* The host of a URL string that parses, in lower case.
HostOf(url) ==
    LET after == SkipSlashes(SubSeq(url, Len(SchemeOf(url)) + 2, Len(url)))
        e == IndexOf(after, {"/", "\\", "?", "#"})
        authority == IF e = 0 THEN after ELSE SubSeq(after, 1, e - 1)
        p == IndexOf(authority, {":"})
    IN  ToLower(IF p = 0 THEN authority ELSE SubSeq(authority, 1, p - 1))

StartsWith(s, prefix) ==
    Len(prefix) <= Len(s) /\ SubSeq(s, 1, Len(prefix)) = prefix

EndsWith(s, suffix) ==
    /\ Len(suffix) <= Len(s)
    /\ SubSeq(s, Len(s) - Len(suffix) + 1, Len(s)) = suffix

\* The host of the URL is a known shortener domain: one of the names of the
\* blocklist, a subdomain of one, or one of them under a top-level domain
\* (tinyurl.com).
OnShortenerDomain(url) ==
    \E d \in spamPatterns :
        \/ HostOf(url) = d
        \/ EndsWith(HostOf(url), <<".">> \o d)
        \/ StartsWith(HostOf(url), d \o <<".">>)

\* C17: a POST /api/shorten is answered 'URL appears to be already
\* shortened' only when the host of its URL is a known shortener domain, and
\* https://stats-test.com and https://click-test.com are not answered 400.
\* (The code searches the names anywhere in the URL: both hosts contain
\* "t.co".)
ShortenerOnlyByDomain ==
    \A q \in Answered :
        /\ Last(q) = JsonError(400,
              "URL appears to be already shortened. Please provide the original URL.")
              => OnShortenerDomain(Trim(q.url.s))
        /\ q.url \in {Str(StatsTest), Str(ClickTest)} => Last(q).status # 400

\* The 500 of a request: JSON for the two API routes, plain text for the
\* redirect.
GenericError(q) ==
    IF q.kind = "redirect"
    THEN TextError(500, "Internal server error")
    ELSE JsonError(500, "Internal server error")

\* C18: the step in which a lookup (of a create, a stats or a redirect) or
\* the INSERT of a create fails, for an outside reason or, the INSERT, for
\* the UNIQUE constraint, answers that request 500 with 'Internal server
\* error', as JSON for the API routes and as plain text for the redirect,
\* ends the request and leaves the table as it was; and every 500 is that
\* response.
StoreFailureAnswers500 ==
    [][ /\ (/\ faults' # faults
            /\ \A code \in Codes : PendingUpdates(code)' = PendingUpdates(code))
           => \E q \in Range(sent') :
                  /\ Last(q) = GenericError(q)
                  /\ q.pc = "done"
                  /\ urls' = urls
        /\ \A q \in Range(sent') :
              /\ (FromShortenInsert(q) /\ UniqueViolation(urls, q.shortCode))
                     => Last(q) = GenericError(q) /\ urls' = urls
              /\ Last(q).status = 500 => Last(q) = GenericError(q)
      ]_vars

\* C18 witness: the lookup of a GET /:shortCode of a mapped short code
\* failed and was answered 500 in plain text.
StoreFailureWitness ==
    \E q \in Range(sent) :
        /\ q.kind = "redirect"
        /\ RowOf(q.shortCode) # NoRow
        /\ faults > 0
        /\ Last(q) = TextError(500, "Internal server error")

\* C19: every mapping a create answered 200 with is in the table; the rows
\* have the ids 1, 2, ... in the order of their creation; and no step removes
\* a row or changes the id, short_code, original_url or created_at of one:
\* only click_count changes.
MappingsImmutable ==
    /\ [](/\ \A p \in issued :
                \E i \in DOMAIN urls :
                    urls[i].short_code = p[1] /\ urls[i].original_url = p[2]
          /\ \A i \in DOMAIN urls : urls[i].id = i /\ urls[i].created_at = i)
    /\ [][ /\ Len(urls') >= Len(urls)
           /\ \A i \in DOMAIN urls :
                 urls'[i] = [urls[i] EXCEPT !.click_count = urls'[i].click_count]
         ]_vars

\* C19 witness: the first mapping has been clicked and a second one created
\* since it was created.
MappingsImmutableWitness ==
    /\ Len(urls) = 2
    /\ urls[1].click_count > 0
    /\ {<<urls[i].short_code, urls[i].original_url>> : i \in DOMAIN urls} = issued

\* C20: no step decreases the click_count of a row; a step that changes one
\* is the UPDATE queued by a redirect of that row's short code, which adds 1
\* to it: it is no arrival and it answers no request, and one redirect of
\* that short code was answered 302 for each click counted.  The steps of
\* POST /api/shorten and GET /api/stats leave every click_count as it was.
ClicksChangeOnlyByRedirect ==
    /\ [](\A i \in DOMAIN urls :
              urls[i].click_count <= redirected[urls[i].short_code])
    /\ [][ \A code \in Codes : \A i \in DOMAIN urls :
              urls[i].short_code = code =>
                  /\ urls'[i].click_count >= urls[i].click_count
                  /\ urls'[i].click_count # urls[i].click_count =>
                        /\ urls'[i].click_count = urls[i].click_count + 1
                        /\ PendingUpdates(code)' = PendingUpdates(code) - 1
                        /\ arrived' = arrived
                        /\ sent' = <<>>
         ]_vars

\* C20 witness: of two mappings one has been clicked and the other has not.
ClicksWitness ==
    \E i, j \in DOMAIN urls :
        /\ urls[i].click_count = 1
        /\ urls[j].click_count = 0
        /\ redirected[urls[j].short_code] = 0

\* C21: the INSERT of (code, url) that runs (without an outside failure) when
\* no row has the code appends one row with that code and url, click_count 0
\* and created_at the time of the INSERT, and changes no other row; when a
\* row has the code the INSERT fails, its callback gets the error, and the
\* table, the row with that code included, is as it was.
StoreInsert ==
    [][ \A q \in Range(sent') :
          (FromShortenInsert(q) /\ faults' = faults) =>
              IF RowOf(q.shortCode) = NoRow
              THEN /\ Len(urls') = Len(urls) + 1
                   /\ \A i \in DOMAIN urls : urls'[i] = urls[i]
                   /\ urls'[Len(urls')].short_code = q.shortCode
                   /\ urls'[Len(urls')].original_url = q.cleanUrl
                   /\ urls'[Len(urls')].click_count = 0
                   /\ urls'[Len(urls')].created_at = Now
                   /\ Last(q).status = 200
              ELSE /\ urls' = urls
                   /\ Last(q).status = 500
      ]_vars

\* C21 witness: an INSERT failed on a short code whose mapping has another
\* URL and has been clicked; the mapping is as it was.
StoreInsertWitness ==
    \E q \in Range(sent) :
        /\ FromShortenInsert(q)
        /\ faults = 0
        /\ Last(q).status = 500
        /\ RowOf(q.shortCode).original_url # q.cleanUrl
        /\ RowOf(q.shortCode).click_count > 0

\* C22: when no statement fails for an outside reason, every one
\* of N concurrent creates of pairwise different URLs is answered 200, and
\* once all are answered the table has N rows.  (Two creates can be given
\* the same short code: the second INSERT fails and is answered 500.)
ConcurrentCreatesAllSucceed ==
    faults = 0 =>
        /\ \A q \in Answered : Last(q).status = 200
        /\ reqs = EmptyBag => Len(urls) = arrived

\* What concurrent creates do guarantee (C22): when no statement fails for an
\* outside reason, each of N
\* concurrent creates of pairwise different URLs is answered 200 with a short
\* code no other mapping has, or 500, and 500 only by the INSERT whose short
\* code is in use; once all are answered the table has one row for each URL
\* answered 200 and none for the others, at least one and at most N.
ConcurrentCreatesSucceedOrCollide ==
    /\ [](faults = 0 =>
            /\ \A q \in Answered :
                  /\ Len(q.res) = 1
                  /\ Last(q).status \in {200, 500}
                  /\ Last(q).status = 200 =>
                        /\ RowOf(Last(q).shortCode).original_url = q.cleanUrl
                        /\ Cardinality(Mappings(q.cleanUrl)) = 1
                  /\ Last(q).status = 500 => Mappings(q.cleanUrl) = {}
            /\ \A i, j \in DOMAIN urls :
                  i # j => /\ urls[i].short_code # urls[j].short_code
                           /\ urls[i].original_url # urls[j].original_url
            /\ {<<urls[i].short_code, urls[i].original_url>> : i \in DOMAIN urls}
                  = issued
            /\ Len(urls) + BagCardinality(reqs) <= arrived
            /\ (reqs = EmptyBag /\ arrived > 0) => Len(urls) >= 1)
    /\ [][ \A q \in Range(sent') :
              (faults' = 0 /\ Last(q).status = 500) =>
                  FromShortenInsert(q) /\ UniqueViolation(urls, q.shortCode)
         ]_vars

\* Two concurrent creates of different URLs were both answered 200 and the
\* table has the two mappings: the outcome C22 expects is reachable.
ConcurrentCreatesWitness ==
    /\ arrived = 2
    /\ reqs = EmptyBag
    /\ faults = 0
    /\ Len(urls) = 2
    /\ Cardinality(issued) = 2
    /\ \E q \in Answered : Last(q).status = 200

\* C23: a POST /api/shorten that carries no correct CAPTCHA answer creates
\* no mapping and is not answered with a short URL.  The handler reads the
\* url field of the body and nothing else, so no request carries a CAPTCHA
\* answer as far as the server can tell: the claim is that no create ever
\* succeeds.
CaptchaRequired ==
    /\ urls = <<>>
    /\ \A q \in Answered : Last(q).status # 200

\* C24: a POST /api/shorten whose url is a non-empty string that does not
\* parse as a URL, such as 'not-a-url', is answered 400 with the error
\* message 'Invalid URL format' and nothing more.  (The code's message goes
\* on: '. Only HTTP and HTTPS URLs are allowed.')
UnparsableMessageExact ==
    \A q \in Answered :
        (q.url \in Candidates /\ Outcome(q.url) = 2) =>
            q.res = <<JsonError(400, "Invalid URL format")>>

\* C25: the 200 of a create for a new mapping is written in the callback of
\* the INSERT that added the row, so the short code and URL of every 200 of
\* a create are in the table, and a GET /api/stats/:shortCode or GET
\* /:shortCode that arrived after a create was answered 200 with its short
\* code is never answered 404.
InsertBeforeResponse ==
    /\ [](/\ \A p \in issued : RowOf(p[1]).original_url = p[2]
          /\ \A q \in Range(sent) :
                (FromCodeLookup(q) /\ q.known # {}) =>
                    /\ Last(q).status # 404
                    /\ Last(q).status \in {200, 302} \/ InternalError(q))
    /\ [][ \A q \in Range(sent') :
              (FromShortenInsert(q) /\ Last(q).status = 200) =>
                  /\ RowOf(q.shortCode) = NoRow
                  /\ urls' = InsertUrl(urls, q.shortCode, q.cleanUrl, Now)
         ]_vars

\* C25 witness: a GET /api/stats/:shortCode that arrived after a create had
\* returned its short code was answered 200.
InsertBeforeResponseWitness ==
    \E q \in Range(sent) :
        /\ q.kind = "stats"
        /\ q.known # {}
        /\ Last(q).status = 200
        /\ Last(q).originalUrl \in q.known

\* C26: the step in which a POST /api/shorten is answered 400 is its arrival:
\* it queues no statement (the request is over and the requests being served
\* are the same), no statement runs or fails, and the table is unchanged.
RejectedCreateTouchesNoStore ==
    [][ \A q \in Range(sent') :
          (q.kind = "shorten" /\ Last(q).status = 400) =>
              /\ arrived' = arrived + 1
              /\ q.res = <<Last(q)>>
              /\ q.pc = "done"
              /\ q.cleanUrl = <<>>
              /\ reqs' = reqs
              /\ urls' = urls
              /\ faults' = faults
      ]_vars

\* C26 witness: a create was answered 400 while the table has a mapping.
RejectedCreateWitness ==
    \E q \in Answered :
        /\ Last(q).status = 400
        /\ urls # <<>>

\* The strings of SpecInput, trimmed, that are trimmed, parse as http or
\* https URLs, have a length in 10..2048 and match no suspicious and no
\* shortener pattern; each property computed on its own, once.
AcceptedUrls ==
    {u \in {Trim(body.s) : body \in Candidates} :
        /\ Trim(u) = u
        /\ Parses(u)
        /\ SchemeOf(u) \in {Http, Https}
        /\ Len(u) \in MinUrlLength..MaxUrlLength
        /\ ~isSuspiciousUrl(u)
        /\ ~containsSpamPatterns(u)}

\* C27: the original_url of every row of the table, and the one every create
\* answers 200 with, is trimmed, parses as an http or https URL, has a length
\* in 10..2048 and matches no suspicious and no shortener pattern; so the
\* Location a redirect of the row sends is a url that a create accepts.
StoredUrlsValidated ==
    /\ \A i \in DOMAIN urls :
          /\ urls[i].original_url \in AcceptedUrls
          /\ Str(RedirectResponse(urls[i]).location) \in InputBodies
          /\ ValidationOf[Str(RedirectResponse(urls[i]).location)] = ""
    /\ \A q \in Answered :
          Last(q).status = 200 => Last(q).originalUrl \in AcceptedUrls
    /\ \A q \in Waiting("shorten", "lookup") \cup Waiting("shorten", "insert") :
          q.cleanUrl \in AcceptedUrls

\* C27 witness: the create of a url with spaces around it was answered 200
\* by its INSERT: the row has the trimmed url.
StoredUrlsWitness ==
    \E q \in Answered :
        /\ q.url = Str(PaddedExampleCom)
        /\ FromShortenInsert(q)
        /\ Last(q).status = 200
        /\ RowOf(q.shortCode).original_url = ExampleCom

\* C28: for every short code with a mapping, click_count plus the UPDATEs
\* still queued for it is at most the number of GET /:shortCode that found
\* the mapping (were answered 302), short of it by at most the number of
\* statements that failed, and equal to it when none failed; each
\* GET /:shortCode answered 302 queues exactly one UPDATE and no other step
\* queues one.
ClickCountBounded ==
    /\ [](\A code \in Codes :
              RowOf(code) # NoRow =>
                  LET counted == RowOf(code).click_count + PendingUpdates(code)
                  IN  /\ counted <= redirected[code]
                      /\ redirected[code] - counted <= faults
                      /\ RowOf(code).click_count <= redirected[code])
    /\ [][ \A code \in Codes :
              IF \E q \in Range(sent') :
                    /\ q.kind = "redirect"
                    /\ q.shortCode = code
                    /\ Last(q).status = 302
              THEN PendingUpdates(code)' = PendingUpdates(code) + 1
              ELSE PendingUpdates(code)' <= PendingUpdates(code)
         ]_vars

\* C28 witness: a mapping was found by two redirects, one click is counted
\* and the UPDATE of the other is still queued.
ClickCountWitness ==
    \E code \in Codes :
        /\ redirected[code] = 2
        /\ RowOf(code).click_count = 1
        /\ PendingUpdates(code) = 1

\* The requests being served that have no response yet.
Unanswered == {q \in BagToSet(reqs) : q.res = <<>>}

\* C29: every request gets exactly one response.  A request being served has
\* none, except a redirect that waits for its UPDATE, which has its one; a
\* request the last step answered has one; a request leaves the server in the
\* step that answers it or, answered before, in the callback of its UPDATE,
\* which writes nothing, failed or not; and, the database calling back for
\* every statement, the requests without a response all get theirs.
ExactlyOneResponse ==
    /\ [](/\ \A q \in BagToSet(reqs) :
                IF q.kind = "redirect" /\ q.pc = "update"
                THEN Len(q.res) = 1 /\ Last(q).status = 302
                ELSE q.res = <<>>
          /\ \A q \in Range(sent) : Len(q.res) = 1)
    /\ [][ /\ BagCardinality(reqs') < BagCardinality(reqs) =>
                 (sent' = <<>> <=>
                     \E code \in Codes :
                         PendingUpdates(code)' < PendingUpdates(code))
           /\ arrived' # arrived =>
                 (sent' = <<>> <=> BagCardinality(reqs') > BagCardinality(reqs))
         ]_vars
    /\ (Unanswered # {}) ~> (Unanswered = {})
    /\ <>[](reqs = EmptyBag)

\* C29 witness: every request that arrived is over and the last step was the
\* callback of an UPDATE that failed, after its redirect had been answered.
ExactlyOneResponseWitness ==
    /\ arrived > 1
    /\ reqs = EmptyBag
    /\ sent = <<>>
    /\ faults > 0
    /\ \E code \in Codes :
          RowOf(code) # NoRow /\ RowOf(code).click_count < redirected[code]

\* C30: the lookup and the INSERT of a create use the trimmed url.  A create
\* whose lookup runs when its url, trimmed, has a mapping is answered 200
\* with the short code of that mapping and adds none, with or without
\* whitespace around the url; no INSERT is queued for a URL that has a
\* mapping; and the originalUrl of every 200, and of the row it names, is
\* the trimmed url.
DedupOnTrimmedUrl ==
    /\ [](\A q \in Answered :
              Last(q).status = 200 =>
                  /\ Last(q).originalUrl = Trim(q.url.s)
                  /\ RowOf(Last(q).shortCode).original_url = Trim(q.url.s))
    /\ [][ /\ \A q \in Range(sent') :
                 (/\ FromShortenLookup(q)
                  /\ faults' = faults
                  /\ Mappings(Trim(q.url.s)) # {}) =>
                     /\ Last(q).status = 200
                     /\ Last(q).shortCode \in
                           {urls[i].short_code : i \in Mappings(Trim(q.url.s))}
                     /\ urls' = urls
           /\ \A u \in {urls[i].original_url : i \in DOMAIN urls} :
                 PendingInserts(u)' <= PendingInserts(u)
         ]_vars

\* C30 witness: a create of https://example.com with spaces around it was
\* answered from the lookup with the short code of the one mapping, whose
\* original_url is the trimmed url.
DedupOnTrimmedUrlWitness ==
    \E q \in Answered :
        /\ q.url = Str(PaddedExampleCom)
        /\ FromShortenLookup(q)
        /\ Len(urls) = 1
        /\ Last(q) = ExistingUrlResponse(urls[1])
        /\ Last(q).originalUrl = ExampleCom

====
